---- MODULE Spec2Model ----
(***************************************************************************)
(* State-machine model of src/src/platform_windows.c, the Windows backend  *)
(* of the PhysicsFS platform layer: file handles, stat, directory          *)
(* enumeration, the mutex primitive, the init/deinit singletons and        *)
(* base-directory discovery.                                               *)
(*                                                                         *)
(* Machine words are scaled: a DWORD is DWORD_BITS wide and a 64-bit       *)
(* quantity (PHYSFS_uint64 / PHYSFS_sint64) is 2 * DWORD_BITS wide, so     *)
(* that every boundary of the split high/low arithmetic (sign bit of the   *)
(* low half, 0xFFFFFFFF marker, first value needing the high half, sign    *)
(* bit of the whole) is reachable by exhaustive search.                    *)
(***************************************************************************)
EXTENDS Integers, Sequences, FiniteSets, TLC

\* ------------------------------------------------------------- bounds
DWORD_BITS == 4          \* width of a DWORD / LONG in the model
MaxOpens    == 2         \* open calls per behaviour when only opening and closing
MaxSessions == 1         \* open calls per behaviour when handles are read, written, sought
MaxIO       == 1         \* read/write/seek calls per behaviour

\* ------------------------------------------------------ word arithmetic
DWORD_MOD  == 2 ^ DWORD_BITS                \* 2^32 in the source
DWORD_MAX  == DWORD_MOD - 1                 \* 0xFFFFFFFF
UINT64_MOD == DWORD_MOD * DWORD_MOD         \* 2^64
UINT64_MAX == UINT64_MOD - 1
SINT64_MAX == (UINT64_MOD \div 2) - 1       \* largest PHYSFS_sint64 / file offset

Min(a, b) == IF a < b THEN a ELSE b
Max(a, b) == IF a > b THEN a ELSE b

LOWORDER_UINT64(pos)  == pos % DWORD_MOD
HIGHORDER_UINT64(pos) == (pos \div DWORD_MOD) % DWORD_MOD

PHYSFS_INVALID_SET_FILE_POINTER == DWORD_MAX
INVALID_HANDLE_VALUE == -1
NULL == 0
NoFile == -1             \* a path with no file behind it
Uninit == -2             \* content of freshly malloc'ed memory
NoHigh == -1             \* lpDistanceToMoveHigh == NULL

\* (DWORD) x : truncation of a 64-bit value to its low half
ToDWORD(x) == x % DWORD_MOD
\* a DWORD read as a LONG (two's complement)
ToLONG(x) == IF x >= DWORD_MOD \div 2 THEN x - DWORD_MOD ELSE x
\* a 64-bit pattern read as a signed 64-bit value
ToSint64(x) == IF x > SINT64_MAX THEN x - UINT64_MOD ELSE x
\* (((PHYSFS_uint64) high) << 32) | low, stored in a PHYSFS_sint64
Combine(high, low) == ToSint64(((high % DWORD_MOD) * DWORD_MOD + low) % UINT64_MOD)

\* ------------------------------------------------------------ variables
VARIABLES
    os,        \* file subsystem: the operating system (disk, native handles, last error)
    heap,      \* file subsystem: WinApiFile records handed out by allocator.Malloc
    errMsg,    \* error the last call recorded through BAIL_MACRO ("none" if it recorded none)
    owned,     \* WinApiFile pointers returned to the caller and not yet closed
    track,     \* per WinApiFile: how it was opened and what was written since
    call,      \* the last file call: operation, arguments, result, native call made
    opens,     \* number of open calls made
    ioLeft,    \* read/write/seek calls still allowed
    statCall,  \* stat: the last call, what the native side answered, what it returned
    enumCall,  \* enumerate: the call, what the native side answers, the events it caused
    mutex,     \* the native mutex object: owning thread, recursion count, abandoned
    thr,       \* per thread: where it is, the grabs it holds, the grab calls it has left
    lastWait,  \* the last grab that returned: thread, native wait result, return value
    waitFailsLeft, \* native wait failures the environment may still inject
    userDir,   \* the cached user directory: NULL or the heap string holding it
    libUserEnv,    \* the service library handle: NULL or the loaded module
    proc,      \* the process: library references, live heap strings, native calls made
    lifeCall,  \* init/deinit: the last call and what it returned
    lifeLeft,  \* init/deinit calls still to be made
    reinit,    \* platformInit has been called while the library handle was non-null
    calc       \* calcBaseDir: the executable's path, the failure to come, the locals

fileVars == <<os, heap, errMsg, owned, track, call, opens, ioLeft>>
statVars == <<statCall>>
enumVars == <<enumCall>>
mutexVars == <<mutex, thr, lastWait, waitFailsLeft>>
lifeVars == <<userDir, libUserEnv, proc, lifeCall, lifeLeft, reinit>>
calcVars == <<calc>>

\* what the calls of one subsystem leave alone
exceptFile == <<statVars, enumVars, mutexVars, lifeVars, calcVars>>
exceptStat == <<fileVars, enumVars, mutexVars, lifeVars, calcVars>>
exceptEnum == <<fileVars, statVars, mutexVars, lifeVars, calcVars>>
exceptMutex == <<fileVars, statVars, enumVars, lifeVars, calcVars>>
exceptLife == <<fileVars, statVars, enumVars, mutexVars, calcVars>>
exceptCalc == <<fileVars, statVars, enumVars, mutexVars, lifeVars>>

\* ------------------------------------------------------- the native side
Paths == {"a.txt"}
Ids == 1 .. Max(MaxOpens, MaxSessions)

NoHandle == [state |-> "unused", path |-> "", pos |-> 0, access |-> "", closes |-> 0]
NoRec    == [state |-> "unused", handle |-> Uninit, readonly |-> Uninit, frees |-> 0]
NoNat    == [fn |-> "none", low |-> 0, high |-> 0, count |-> 0, rc |-> 0]

\* A file offset or length worth trying: every boundary of the split arithmetic.
FileSizes == {0, 1, DWORD_MAX, DWORD_MOD, 2 * DWORD_MOD - 1}
SeekArgs == {1, DWORD_MOD \div 2, DWORD_MAX, DWORD_MOD, 2 * DWORD_MOD - 1, SINT64_MAX,
             SINT64_MAX + 1}
Lens == {1, DWORD_MAX, DWORD_MOD, UINT64_MAX}

Bail(st, e, r) == [st EXCEPT !.err = e, !.ret = r]

\* winApiStrError(): the message of GetLastError()
winApiStrError(o) == o.lastErr

\* CreateFileW(wfname, mode, share, NULL, creation, NORMAL, NULL)
CreateFileW(o, id, path, mode, creation, ok) ==
    LET exists == o.disk[path] # NoFile IN
    IF ~ok
    THEN [os |-> [o EXCEPT !.lastErr = "ERROR_ACCESS_DENIED"], fileh |-> INVALID_HANDLE_VALUE]
    ELSE IF creation = "OPEN_EXISTING" /\ ~exists
    THEN [os |-> [o EXCEPT !.lastErr = "ERROR_FILE_NOT_FOUND"], fileh |-> INVALID_HANDLE_VALUE]
    ELSE [os |-> [o EXCEPT
                    !.disk[path] = IF creation = "CREATE_ALWAYS" \/ ~exists THEN 0 ELSE @,
                    !.handles[id] = [state |-> "open", path |-> path, pos |-> 0,
                                     access |-> mode, closes |-> 0]],
          fileh |-> id]

\* CloseHandle(h)
CloseHandle(o, h) ==
    [o EXCEPT !.handles[h].state = "closed", !.handles[h].closes = @ + 1]

\* allocator.Free(ptr): free(NULL) does nothing
Free(hp, r) ==
    IF r = NULL THEN hp ELSE [hp EXCEPT ![r].state = "freed", ![r].frees = @ + 1]

\* The distance SetFilePointer moves by: lDistanceToMove alone is a signed LONG
\* when lpDistanceToMoveHigh is NULL, else the two halves form a signed 64-bit value.
NativeDistance(low, high) ==
    IF high = NoHigh THEN ToLONG(low) ELSE Combine(high, low)

\* SetFilePointer(h, low, pHigh, method); pHigh = NoHigh for a null pointer
SetFilePointer(o, h, low, high, method, ok) ==
    LET H == o.handles[h]
        base == CASE method = "FILE_BEGIN"   -> 0
                  [] method = "FILE_CURRENT" -> H.pos
                  [] method = "FILE_END"     -> o.disk[H.path]
        target == base + NativeDistance(low, high)
        failed(e) == [os |-> [o EXCEPT !.lastErr = e],
                      rc |-> PHYSFS_INVALID_SET_FILE_POINTER, high |-> high]
    IN  IF ~ok THEN failed("ERROR_GEN_FAILURE")
        ELSE IF target < 0 THEN failed("ERROR_NEGATIVE_SEEK")
        ELSE IF target > SINT64_MAX THEN failed("ERROR_INVALID_PARAMETER")
        ELSE IF high = NoHigh /\ target > DWORD_MAX THEN failed("ERROR_INVALID_PARAMETER")
        ELSE [os |-> [o EXCEPT !.handles[h].pos = target, !.lastErr = "NO_ERROR"],
              rc |-> LOWORDER_UINT64(target),
              high |-> IF high = NoHigh THEN NoHigh ELSE HIGHORDER_UINT64(target)]

\* GetFileSize(h, &SizeHigh)
GetFileSize(o, h, ok) ==
    LET size == o.disk[o.handles[h].path] IN
    IF ~ok
    THEN [os |-> [o EXCEPT !.lastErr = "ERROR_GEN_FAILURE"],
          rc |-> PHYSFS_INVALID_SET_FILE_POINTER, high |-> 0]
    ELSE [os |-> [o EXCEPT !.lastErr = "NO_ERROR"],
          rc |-> LOWORDER_UINT64(size), high |-> HIGHORDER_UINT64(size)]

\* ReadFile(h, buf, n, &count, NULL)
ReadFile(o, h, n, ok) ==
    LET H == o.handles[h]
        size == o.disk[H.path]
        got == IF H.pos >= size THEN 0 ELSE Min(n, size - H.pos)
    IN  IF ~ok THEN [os |-> [o EXCEPT !.lastErr = "ERROR_GEN_FAILURE"], rc |-> 0, count |-> 0]
        ELSE IF H.access # "GENERIC_READ"
        THEN [os |-> [o EXCEPT !.lastErr = "ERROR_ACCESS_DENIED"], rc |-> 0, count |-> 0]
        ELSE [os |-> [o EXCEPT !.handles[h].pos = @ + got], rc |-> 1, count |-> got]

\* WriteFile(h, buf, n, &count, NULL)
WriteFile(o, h, n, ok) ==
    LET H == o.handles[h]
        size == o.disk[H.path]
    IN  IF ~ok THEN [os |-> [o EXCEPT !.lastErr = "ERROR_GEN_FAILURE"], rc |-> 0, count |-> 0]
        ELSE IF H.access # "GENERIC_WRITE"
        THEN [os |-> [o EXCEPT !.lastErr = "ERROR_ACCESS_DENIED"], rc |-> 0, count |-> 0]
        ELSE IF H.pos + n > SINT64_MAX
        THEN [os |-> [o EXCEPT !.lastErr = "ERROR_DISK_FULL"], rc |-> 0, count |-> 0]
        ELSE [os |-> [o EXCEPT !.handles[h].pos = @ + n,
                               !.disk[H.path] = IF n = 0 THEN @ ELSE Max(@, H.pos + n)],
              rc |-> 1, count |-> n]

\* FlushFileBuffers(h)
FlushFileBuffers(o, h, ok) ==
    IF ok THEN [os |-> o, rc |-> 1]
    ELSE [os |-> [o EXCEPT !.lastErr = "ERROR_GEN_FAILURE"], rc |-> 0]

\* ------------------------------------------------- the code: file handles
\* St: what a call works on, and what it returns
St == [os |-> os, heap |-> heap, err |-> "none", nat |-> NoNat, ret |-> 0]

\* __PHYSFS_ui64FitsAddressSpace(len): the length fits the native 32-bit count
__PHYSFS_ui64FitsAddressSpace(len) == len <= DWORD_MAX

\* env: which of the calls the environment lets succeed
FailAt(step) == [wfname |-> step # "wfname", create |-> step # "create",
                 malloc |-> step # "malloc", seek |-> step # "seek"]
OpenEnv == {FailAt(step) : step \in {"none", "wfname", "create", "malloc", "seek"}}
EnvOk(env) == env = FailAt("none")

doOpen_leak(st, id, fname, mode, creation, rdonly, env) ==
    IF ~env.wfname THEN Bail(st, "ERR_OUT_OF_MEMORY", NULL)
    ELSE LET c == CreateFileW(st.os, id, fname, mode, creation, env.create)
             st1 == [st EXCEPT !.os = c.os]
         IN  IF c.fileh = INVALID_HANDLE_VALUE THEN Bail(st1, winApiStrError(st1.os), NULL)
             ELSE IF ~env.malloc
             THEN Bail(st1, "ERR_OUT_OF_MEMORY", NULL)
             ELSE [st1 EXCEPT !.heap[id] = [state |-> "live", handle |-> c.fileh,
                                            readonly |-> rdonly, frees |-> 0],
                              !.ret = id]

doOpen(st, id, fname, mode, creation, rdonly, env) ==
    IF ~env.wfname THEN Bail(st, "ERR_OUT_OF_MEMORY", NULL)
    ELSE LET c == CreateFileW(st.os, id, fname, mode, creation, env.create)
             st1 == [st EXCEPT !.os = c.os]
         IN  IF c.fileh = INVALID_HANDLE_VALUE THEN Bail(st1, winApiStrError(st1.os), NULL)
             ELSE IF ~env.malloc
             THEN Bail([st1 EXCEPT !.os = CloseHandle(@, c.fileh)], "ERR_OUT_OF_MEMORY", NULL)
             ELSE [st1 EXCEPT !.heap[id] = [state |-> "live", handle |-> c.fileh,
                                            readonly |-> rdonly, frees |-> 0],
                              !.ret = id]

__PHYSFS_platformOpenRead(st, id, filename, env) ==
    doOpen(st, id, filename, "GENERIC_READ", "OPEN_EXISTING", 1, env)

__PHYSFS_platformOpenWrite(st, id, filename, env) ==
    doOpen(st, id, filename, "GENERIC_WRITE", "CREATE_ALWAYS", 0, env)

__PHYSFS_platformOpenAppend(st, id, filename, env) ==
    LET st1 == doOpen(st, id, filename, "GENERIC_WRITE", "OPEN_ALWAYS", 0, env) IN
    IF st1.ret # NULL
    THEN LET h == st1.heap[st1.ret].handle
             s == SetFilePointer(st1.os, h, 0, NoHigh, "FILE_END", env.seek)
             st2 == [st1 EXCEPT !.os = s.os,
                                !.nat = [fn |-> "SetFilePointer", low |-> 0,
                                         high |-> NoHigh, count |-> 0, rc |-> s.rc]]
         IN  IF s.rc = PHYSFS_INVALID_SET_FILE_POINTER
             THEN LET err == winApiStrError(st2.os) IN
                  Bail([st2 EXCEPT !.os = CloseHandle(@, h),
                                   !.heap = Free(@, st1.ret)], err, NULL)
             ELSE st2
    ELSE st1

platformRead_truncate(st, opaque, len, ok) ==
    LET Handle == st.heap[opaque].handle
        r == ReadFile(st.os, Handle, ToDWORD(len), ok)
        st1 == [st EXCEPT !.os = r.os,
                          !.nat = [fn |-> "ReadFile", low |-> ToDWORD(len),
                                   high |-> 0, count |-> r.count, rc |-> r.rc]]
    IN  IF r.rc = 0 THEN Bail(st1, winApiStrError(st1.os), -1)
        ELSE [st1 EXCEPT !.ret = r.count]

__PHYSFS_platformRead(st, opaque, len, ok) ==
    LET Handle == st.heap[opaque].handle IN
    IF ~__PHYSFS_ui64FitsAddressSpace(len) THEN Bail(st, "ERR_INVALID_ARGUMENT", -1)
    ELSE LET r == ReadFile(st.os, Handle, ToDWORD(len), ok)
             st1 == [st EXCEPT !.os = r.os,
                               !.nat = [fn |-> "ReadFile", low |-> ToDWORD(len),
                                        high |-> 0, count |-> r.count, rc |-> r.rc]]
         IN  IF r.rc = 0 THEN Bail(st1, winApiStrError(st1.os), -1)
             ELSE [st1 EXCEPT !.ret = r.count]

__PHYSFS_platformWrite(st, opaque, len, ok) ==
    LET Handle == st.heap[opaque].handle IN
    IF ~__PHYSFS_ui64FitsAddressSpace(len) THEN Bail(st, "ERR_INVALID_ARGUMENT", -1)
    ELSE LET r == WriteFile(st.os, Handle, ToDWORD(len), ok)
             st1 == [st EXCEPT !.os = r.os,
                               !.nat = [fn |-> "WriteFile", low |-> ToDWORD(len),
                                        high |-> 0, count |-> r.count, rc |-> r.rc]]
         IN  IF r.rc = 0 THEN Bail(st1, winApiStrError(st1.os), -1)
             ELSE [st1 EXCEPT !.ret = r.count]

__PHYSFS_platformSeek(st, opaque, pos, ok) ==
    LET Handle == st.heap[opaque].handle
        HighOrderPos == HIGHORDER_UINT64(pos)
        pHighOrderPos == IF HighOrderPos # 0 THEN HighOrderPos ELSE NoHigh
        s == SetFilePointer(st.os, Handle, LOWORDER_UINT64(pos), pHighOrderPos,
                            "FILE_BEGIN", ok)
        st1 == [st EXCEPT !.os = s.os,
                          !.nat = [fn |-> "SetFilePointer", low |-> LOWORDER_UINT64(pos),
                                   high |-> pHighOrderPos, count |-> 0, rc |-> s.rc]]
    IN  IF s.rc = PHYSFS_INVALID_SET_FILE_POINTER /\ st1.os.lastErr # "NO_ERROR"
        THEN Bail(st1, winApiStrError(st1.os), 0)
        ELSE [st1 EXCEPT !.ret = 1]

__PHYSFS_platformTell(st, opaque, ok) ==
    LET Handle == st.heap[opaque].handle
        s == SetFilePointer(st.os, Handle, 0, 0, "FILE_CURRENT", ok)
        st1 == [st EXCEPT !.os = s.os,
                          !.nat = [fn |-> "SetFilePointer", low |-> s.rc,
                                   high |-> s.high, count |-> 0, rc |-> s.rc]]
    IN  IF s.rc = PHYSFS_INVALID_SET_FILE_POINTER /\ st1.os.lastErr # "NO_ERROR"
        THEN Bail(st1, winApiStrError(st1.os), -1)
        ELSE [st1 EXCEPT !.ret = Combine(s.high, s.rc)]

__PHYSFS_platformFileLength(st, opaque, ok) ==
    LET Handle == st.heap[opaque].handle
        s == GetFileSize(st.os, Handle, ok)
        st1 == [st EXCEPT !.os = s.os,
                          !.nat = [fn |-> "GetFileSize", low |-> s.rc,
                                   high |-> s.high, count |-> 0, rc |-> s.rc]]
    IN  IF s.rc = PHYSFS_INVALID_SET_FILE_POINTER /\ st1.os.lastErr # "NO_ERROR"
        THEN Bail(st1, winApiStrError(st1.os), -1)
        ELSE [st1 EXCEPT !.ret = Combine(s.high, s.rc)]

__PHYSFS_platformFlush(st, opaque, ok) ==
    LET fh == st.heap[opaque] IN
    IF fh.readonly = 0
    THEN LET f == FlushFileBuffers(st.os, fh.handle, ok)
             st1 == [st EXCEPT !.os = f.os,
                               !.nat = [fn |-> "FlushFileBuffers", low |-> 0,
                                        high |-> 0, count |-> 0, rc |-> f.rc]]
         IN  IF f.rc = 0 THEN Bail(st1, winApiStrError(st1.os), 0)
             ELSE [st1 EXCEPT !.ret = 1]
    ELSE [st EXCEPT !.ret = 1]

__PHYSFS_platformClose(st, opaque) ==
    LET Handle == st.heap[opaque].handle IN
    [st EXCEPT !.os = CloseHandle(@, Handle), !.heap = Free(@, opaque)]

\* ------------------------------------------------------ the code: stat
\* Times are counted in seconds; a FILETIME counts from 1601, time_t from 1970.
EPOCH_1970 == 3          \* the FILETIME of 1970-01-01 00:00:00 UTC

Attributes == {"FILE_ATTRIBUTE_READONLY", "FILE_ATTRIBUTE_DIRECTORY",
               "FILE_ATTRIBUTE_DEVICE", "FILE_ATTRIBUTE_OFFLINE"}

\* FileTimeToSystemTime(ft, &st_utc): refuses a FILETIME with the top bit set
FileTimeToSystemTime(ft) ==
    IF ft < 0 THEN [rc |-> 0, st |-> 0] ELSE [rc |-> 1, st |-> ft]

\* SystemTimeToTzSpecificLocalTime(&tzi, &st_utc, &st_localtz)
SystemTimeToTzSpecificLocalTime(tzi, st_utc, ok) ==
    IF ok THEN [rc |-> 1, st |-> st_utc - tzi.bias] ELSE [rc |-> 0, st |-> 0]

\* mktime(&tm): local calendar time to seconds since 1970, -1 if not representable
mktime(tm, tzi) ==
    LET t == (tm + tzi.bias) - EPOCH_1970 IN IF t < 0 THEN -1 ELSE t

\* t: the FILETIME and what the time-zone calls answer while it is converted
FileTimeToPhysfsTime(t) ==
    LET utc == FileTimeToSystemTime(t.ft) IN
    IF utc.rc = 0 THEN [ret |-> -1, err |-> "ERROR_INVALID_PARAMETER"]
    ELSE IF t.tzi.id = "TIME_ZONE_ID_INVALID" THEN [ret |-> -1, err |-> "ERROR_GEN_FAILURE"]
    ELSE LET loc == SystemTimeToTzSpecificLocalTime(t.tzi, utc.st, t.localOk) IN
         IF loc.rc = 0 THEN [ret |-> -1, err |-> "ERROR_INVALID_PARAMETER"]
         ELSE LET retval == mktime(loc.st, t.tzi) IN
              IF retval = -1 THEN [ret |-> -1, err |-> "strerror(errno)"]
              ELSE [ret |-> retval, err |-> "none"]

NoStat == [modtime |-> Uninit, accesstime |-> Uninit, createtime |-> Uninit,
           filetype |-> "uninit", filesize |-> Uninit, readonly |-> Uninit]

LastOf(errs) ==
    IF errs[3] # "none" THEN errs[3] ELSE IF errs[2] # "none" THEN errs[2] ELSE errs[1]

platformStat_offlineFirst(wstrOk, q) ==
    IF ~wstrOk
    THEN [ret |-> 0, exists |-> Uninit, stat |-> NoStat, err |-> "ERR_OUT_OF_MEMORY"]
    ELSE LET err == IF q.rc = 0 THEN q.err ELSE "0"
             exists == IF err # "ERROR_FILE_NOT_FOUND" /\ err # "ERROR_PATH_NOT_FOUND"
                       THEN 1 ELSE 0
         IN  IF q.rc = 0 THEN [ret |-> 0, exists |-> exists, stat |-> NoStat, err |-> err]
             ELSE LET w == q.winstat
                      m == FileTimeToPhysfsTime(w.ftLastWriteTime)
                      a == FileTimeToPhysfsTime(w.ftLastAccessTime)
                      c == FileTimeToPhysfsTime(w.ftCreationTime)
                      kind == IF w.dwFileAttributes \cap
                                   {"FILE_ATTRIBUTE_OFFLINE", "FILE_ATTRIBUTE_DEVICE"} # {}
                              THEN [filetype |-> "PHYSFS_FILETYPE_OTHER", filesize |-> 0]
                              ELSE IF "FILE_ATTRIBUTE_DIRECTORY" \in w.dwFileAttributes
                              THEN [filetype |-> "PHYSFS_FILETYPE_DIRECTORY", filesize |-> 0]
                              ELSE [filetype |-> "PHYSFS_FILETYPE_REGULAR",
                                    filesize |-> Combine(w.nFileSizeHigh, w.nFileSizeLow)]
                  IN [ret |-> 1, exists |-> exists,
                      stat |-> [modtime |-> m.ret, accesstime |-> a.ret, createtime |-> c.ret,
                                filetype |-> kind.filetype, filesize |-> kind.filesize,
                                readonly |-> IF "FILE_ATTRIBUTE_READONLY" \in w.dwFileAttributes
                                             THEN 1 ELSE 0],
                      err |-> LastOf(<<m.err, a.err, c.err>>)]

\* wstrOk: the wide copy of the path could be allocated; q: what
\* GetFileAttributesExW answers (rc, GetLastError(), WIN32_FILE_ATTRIBUTE_DATA)
__PHYSFS_platformStat(wstrOk, q) ==
    IF ~wstrOk
    THEN [ret |-> 0, exists |-> Uninit, stat |-> NoStat, err |-> "ERR_OUT_OF_MEMORY"]
    ELSE LET err == IF q.rc = 0 THEN q.err ELSE "0"
             exists == IF err # "ERROR_FILE_NOT_FOUND" /\ err # "ERROR_PATH_NOT_FOUND"
                       THEN 1 ELSE 0
         IN  IF q.rc = 0 THEN [ret |-> 0, exists |-> exists, stat |-> NoStat, err |-> err]
             ELSE LET w == q.winstat
                      m == FileTimeToPhysfsTime(w.ftLastWriteTime)
                      a == FileTimeToPhysfsTime(w.ftLastAccessTime)
                      c == FileTimeToPhysfsTime(w.ftCreationTime)
                      kind == IF "FILE_ATTRIBUTE_DIRECTORY" \in w.dwFileAttributes
                              THEN [filetype |-> "PHYSFS_FILETYPE_DIRECTORY", filesize |-> 0]
                              ELSE IF w.dwFileAttributes \cap
                                   {"FILE_ATTRIBUTE_OFFLINE", "FILE_ATTRIBUTE_DEVICE"} # {}
                              THEN [filetype |-> "PHYSFS_FILETYPE_OTHER", filesize |-> 0]
                              ELSE [filetype |-> "PHYSFS_FILETYPE_REGULAR",
                                    filesize |-> Combine(w.nFileSizeHigh, w.nFileSizeLow)]
                  IN [ret |-> 1, exists |-> exists,
                      stat |-> [modtime |-> m.ret, accesstime |-> a.ret, createtime |-> c.ret,
                                filetype |-> kind.filetype, filesize |-> kind.filesize,
                                readonly |-> IF "FILE_ATTRIBUTE_READONLY" \in w.dwFileAttributes
                                             THEN 1 ELSE 0],
                      err |-> LastOf(<<m.err, a.err, c.err>>)]

\* ------------------------------------------------ stat subsystem: actions
TzOk(b) == [id |-> "TIME_ZONE_ID_STANDARD", bias |-> b]
TzInvalid == [id |-> "TIME_ZONE_ID_INVALID", bias |-> 0]
GoodTime == [ft |-> EPOCH_1970 + 2, tzi |-> TzOk(0), localOk |-> TRUE]
\* one timestamp per way its conversion can end
TimeInputs ==
    { GoodTime,
      [GoodTime EXCEPT !.ft = EPOCH_1970 + 5, !.tzi = TzOk(1)],
      [GoodTime EXCEPT !.ft = -1],
      [GoodTime EXCEPT !.tzi = TzInvalid],
      [GoodTime EXCEPT !.localOk = FALSE],
      [GoodTime EXCEPT !.ft = EPOCH_1970 - 1] }

NoWinStat == [dwFileAttributes |-> {}, nFileSizeHigh |-> 0, nFileSizeLow |-> 0,
              ftLastWriteTime |-> GoodTime, ftLastAccessTime |-> GoodTime,
              ftCreationTime |-> GoodTime]
WinStats ==
    [dwFileAttributes : SUBSET Attributes,
     nFileSizeHigh : {0, 1}, nFileSizeLow : {1, DWORD_MAX},
     ftLastWriteTime : TimeInputs, ftLastAccessTime : TimeInputs,
     ftCreationTime : TimeInputs]
Queries ==
    {[rc |-> 0, err |-> e, winstat |-> NoWinStat] :
        e \in {"ERROR_FILE_NOT_FOUND", "ERROR_PATH_NOT_FOUND", "ERROR_ACCESS_DENIED"}}
    \cup {[rc |-> 1, err |-> "NO_ERROR", winstat |-> w] : w \in WinStats}

NoOut == [ret |-> 0, exists |-> Uninit, stat |-> NoStat, err |-> "none"]

\* a stat call about to be made: the path's wide copy and the native answer are drawn
StatInit ==
    statCall \in {[op |-> "pending", wstrOk |-> k, query |-> q, out |-> NoOut] :
                    k \in BOOLEAN, q \in Queries}

StatIdle ==
    statCall = [op |-> "none", wstrOk |-> TRUE,
                query |-> [rc |-> 0, err |-> "NO_ERROR", winstat |-> NoWinStat],
                out |-> NoOut]

Stat ==
    /\ statCall.op = "pending"
    /\ statCall' = [statCall EXCEPT !.op = "stat",
                       !.out = __PHYSFS_platformStat(statCall.wstrOk, statCall.query)]
    /\ UNCHANGED exceptStat

\* ------------------------------------------------ file subsystem: actions
NoTrack == [mode |-> "none", base |-> 0, delta |-> 0, moved |-> FALSE]
NoCall  == [op |-> "none", id |-> 0, path |-> "", arg |-> 0, ret |-> 0, nat |-> NoNat,
            envok |-> TRUE, pre |-> NoFile]

FileInit ==
    /\ os \in {[disk |-> d, handles |-> [i \in Ids |-> NoHandle], lastErr |-> "NO_ERROR"] :
                 d \in [Paths -> FileSizes \cup {NoFile}]}
    /\ heap = [i \in Ids |-> NoRec]
    /\ errMsg = "none"
    /\ owned = {}
    /\ track = [i \in Ids |-> NoTrack]
    /\ call = NoCall
    /\ opens = 0
    /\ ioLeft = MaxIO

FileIdle ==
    /\ os = [disk |-> [f \in Paths |-> NoFile], handles |-> [i \in Ids |-> NoHandle],
             lastErr |-> "NO_ERROR"]
    /\ heap = [i \in Ids |-> NoRec]
    /\ errMsg = "none"
    /\ owned = {}
    /\ track = [i \in Ids |-> NoTrack]
    /\ call = NoCall
    /\ opens = 0
    /\ ioLeft = MaxIO

\* what every file call leaves behind
Returned(op, id, path, arg, st, envok, pre) ==
    /\ os' = st.os
    /\ heap' = st.heap
    /\ errMsg' = st.err
    /\ call' = [op |-> op, id |-> id, path |-> path, arg |-> arg, ret |-> st.ret,
                nat |-> st.nat, envok |-> envok, pre |-> pre]
    /\ UNCHANGED exceptFile

Opened(op, f, st, env) ==
    /\ Returned(op, opens + 1, f, 0, st, EnvOk(env), os.disk[f])
    /\ opens' = opens + 1
    /\ owned' = IF st.ret # NULL THEN owned \cup {st.ret} ELSE owned
    /\ track' = IF st.ret # NULL
                THEN [track EXCEPT ![st.ret] =
                        [mode |-> op, base |-> os.disk[f], delta |-> 0, moved |-> FALSE]]
                ELSE track
    /\ UNCHANGED ioLeft

OpenRead(f, env) ==
    /\ opens < MaxOpens
    /\ Opened("openRead", f, __PHYSFS_platformOpenRead(St, opens + 1, f, env), env)

OpenWrite(f, env) ==
    /\ opens < MaxOpens
    /\ Opened("openWrite", f, __PHYSFS_platformOpenWrite(St, opens + 1, f, env), env)

OpenAppend(f, env) ==
    /\ opens < MaxOpens
    /\ Opened("openAppend", f, __PHYSFS_platformOpenAppend(St, opens + 1, f, env), env)

PathOf(r) == os.handles[heap[r].handle].path

Read(r, len, ok) ==
    /\ r \in owned
    /\ ioLeft > 0
    /\ Returned("read", r, PathOf(r), len, __PHYSFS_platformRead(St, r, len, ok), ok,
                os.disk[PathOf(r)])
    /\ ioLeft' = ioLeft - 1
    /\ UNCHANGED <<owned, track, opens>>

Write(r, len, ok) ==
    /\ r \in owned
    /\ ioLeft > 0
    /\ LET st == __PHYSFS_platformWrite(St, r, len, ok) IN
        /\ Returned("write", r, PathOf(r), len, st, ok, os.disk[PathOf(r)])
        /\ track' = [track EXCEPT ![r].delta = @ + (IF st.ret > 0 THEN st.ret ELSE 0)]
    /\ ioLeft' = ioLeft - 1
    /\ UNCHANGED <<owned, opens>>

Seek(r, pos, ok) ==
    /\ r \in owned
    /\ Returned("seek", r, PathOf(r), pos, __PHYSFS_platformSeek(St, r, pos, ok), ok,
                os.disk[PathOf(r)])
    /\ track' = [track EXCEPT ![r].moved = TRUE]
    /\ ioLeft > 0
    /\ ioLeft' = ioLeft - 1
    /\ UNCHANGED <<owned, opens>>

Tell(r, ok) ==
    /\ r \in owned
    /\ Returned("tell", r, PathOf(r), 0, __PHYSFS_platformTell(St, r, ok), ok,
                os.disk[PathOf(r)])
    /\ UNCHANGED <<owned, track, opens, ioLeft>>

FileLength(r, ok) ==
    /\ r \in owned
    /\ Returned("length", r, PathOf(r), 0, __PHYSFS_platformFileLength(St, r, ok), ok,
                os.disk[PathOf(r)])
    /\ UNCHANGED <<owned, track, opens, ioLeft>>

Flush(r, ok) ==
    /\ r \in owned
    /\ Returned("flush", r, PathOf(r), 0, __PHYSFS_platformFlush(St, r, ok), ok,
                os.disk[PathOf(r)])
    /\ UNCHANGED <<owned, track, opens, ioLeft>>

Close(r) ==
    /\ r \in owned
    /\ Returned("close", r, PathOf(r), 0, __PHYSFS_platformClose(St, r), TRUE,
                os.disk[PathOf(r)])
    /\ owned' = owned \ {r}
    /\ UNCHANGED <<track, opens, ioLeft>>

\* the caller works on one file handle at a time
OneAtATime == owned = {} /\ opens < MaxSessions
SessionOpenRead(f, env) == OneAtATime /\ OpenRead(f, env)
SessionOpenWrite(f, env) == OneAtATime /\ OpenWrite(f, env)
SessionOpenAppend(f, env) == OneAtATime /\ OpenAppend(f, env)

FileNext ==
    \/ \E f \in Paths, env \in OpenEnv : SessionOpenRead(f, env)
    \/ \E f \in Paths, env \in OpenEnv : SessionOpenWrite(f, env)
    \/ \E f \in Paths, env \in OpenEnv : SessionOpenAppend(f, env)
    \/ \E r \in Ids, len \in Lens, ok \in BOOLEAN : Read(r, len, ok)
    \/ \E r \in Ids, len \in Lens, ok \in BOOLEAN : Write(r, len, ok)
    \/ \E r \in Ids, pos \in SeekArgs, ok \in BOOLEAN : Seek(r, pos, ok)
    \/ \E r \in Ids, ok \in BOOLEAN : Tell(r, ok)
    \/ \E r \in Ids, ok \in BOOLEAN : FileLength(r, ok)
    \/ \E r \in Ids, ok \in BOOLEAN : Flush(r, ok)
    \/ \E r \in Ids : Close(r)

\* the caller opens and closes handles in any order, several at a time
OpenNext ==
    \/ \E f \in Paths, env \in OpenEnv : OpenRead(f, env)
    \/ \E f \in Paths, env \in OpenEnv : OpenWrite(f, env)
    \/ \E f \in Paths, env \in OpenEnv : OpenAppend(f, env)
    \/ \E r \in Ids : Close(r)

\* ------------------------------------------- the code: text conversion
\* Narrow strings are sequences of bytes, wide strings sequences of 16-bit units,
\* both without their terminator.
BACKSLASH == 92
DOT == 46
STAR == 42

\* the bytes of one UCS-2 unit in the narrow encoding
Utf8Of(cp) ==
    IF cp < 128 THEN <<cp>>
    ELSE IF cp < 2048 THEN <<192 + (cp \div 64), 128 + (cp % 64)>>
    ELSE <<224 + (cp \div 4096), 128 + ((cp \div 64) % 64), 128 + (cp % 64)>>

\* the one element of a singleton set; a value computed once is named by binding
\* it as the element of such a set
The(S) == CHOOSE r \in S : TRUE

\* the bytes of units lo .. hi of a wide string, and how many they are
RECURSIVE Utf8Range(_, _, _)
Utf8Range(w, lo, hi) ==
    IF lo > hi THEN <<>>
    ELSE IF lo = hi THEN Utf8Of(w[lo])
    ELSE The({ Utf8Range(w, lo, mid) \o Utf8Range(w, mid + 1, hi) :
                 mid \in {(lo + hi) \div 2} })

\* PHYSFS_utf8FromUcs2(src, dst, len): as many whole units as fit in len - 1 bytes
PHYSFS_utf8FromUcs2(src, len) ==
    The({ IF Len(all) <= len - 1 THEN all
          ELSE Utf8Range(s, 1, CHOOSE k \in 0 .. Len(s) - 1 :
                                  /\ Len(Utf8Range(s, 1, k)) <= len - 1
                                  /\ Len(Utf8Range(s, 1, k + 1)) > len - 1) :
            <<s, all>> \in { <<t, Utf8Range(t, 1, Len(t))>> : t \in {src} } })

\* PHYSFS_utf8ToUcs2(src, dst, len): one unit per encoded character
RECURSIVE PHYSFS_utf8ToUcs2(_)
PHYSFS_utf8ToUcs2(src) ==
    IF src = <<>> THEN <<>>
    ELSE LET b == Head(src) IN
         IF b < 128 \/ Len(src) < 2 THEN <<b>> \o PHYSFS_utf8ToUcs2(Tail(src))
         ELSE IF b < 224 \/ Len(src) < 3
         THEN <<((b - 192) * 64) + (src[2] - 128)>> \o PHYSFS_utf8ToUcs2(SubSeq(src, 3, Len(src)))
         ELSE <<((b - 224) * 4096) + ((src[2] - 128) * 64) + (src[3] - 128)>>
              \o PHYSFS_utf8ToUcs2(SubSeq(src, 4, Len(src)))

wStrLen(wstr) == Len(wstr)

\* unicodeToUtf8Heap(w_str): NULL when allocator.Malloc fails, else the narrow
\* copy (shrunk by Realloc when that succeeds, the same string when it does not)
NoStr == [ptr |-> NULL, str |-> <<>>]

unicodeToUtf8Heap(w_str, mallocOk) ==
    LET len == (wStrLen(w_str) * 4) + 1 IN
    IF ~mallocOk THEN NoStr
    ELSE [ptr |-> 1, str |-> PHYSFS_utf8FromUcs2(w_str, len)]

\* ------------------------------------------------- the code: enumerate
\* C string indexing: s[i], the terminator past the last character
At(str, i) == IF i + 1 <= Len(str) THEN str[i + 1] ELSE 0

isSymlinkAttrs(attr, tag) ==
    "FILE_ATTRIBUTE_REPARSE_POINT" \in attr /\ tag = "IO_REPARSE_TAG_SYMLINK"

Ev(e, what, i, name, args) == [e |-> e, what |-> what, i |-> i, name |-> name, args |-> args]

\* lines 363-383: the search pattern, and the indices of searchPath read or written;
\* oob is the byte found at searchPath[-1] when dirname is empty
BuildSearchPath(dirname, oob) ==
    LET len == Len(dirname)
        last == IF len = 0 THEN oob ELSE At(dirname, len - 1)
        copied == 0 .. len
        sep == last # BACKSLASH
        len2 == IF sep THEN len + 1 ELSE len
    IN  [size |-> len + 3,
         path |-> (IF sep THEN Append(dirname, BACKSLASH) ELSE dirname) \o <<STAR>>,
         used |-> copied \cup {len - 1} \cup (IF sep THEN {len, len + 1} ELSE {})
                  \cup (0 .. len2 + 1)]

Skipped_onlyDot(fn, attr, tag, omitSymLinks) ==
    \/ At(fn, 0) = DOT /\ At(fn, 1) = 0
    \/ omitSymLinks /\ isSymlinkAttrs(attr, tag)

\* lines 403-408: the entries the loop passes over
Skipped(fn, attr, tag, omitSymLinks) ==
    \/ At(fn, 0) = DOT /\ At(fn, 1) = 0
    \/ At(fn, 0) = DOT /\ At(fn, 1) = DOT /\ At(fn, 2) = 0
    \/ omitSymLinks /\ isSymlinkAttrs(attr, tag)

\* lines 396-416: the do-while loop from entry i on; one FindNextFileW per entry
RECURSIVE EnumLoop(_, _, _, _, _, _)
EnumLoop(entries, i, omitSymLinks, utf8Ok, callbackdata, origdir) ==
    LET entw == entries[i]
        body ==
            IF Skipped(entw.cFileName, entw.dwFileAttributes, entw.dwReserved0, omitSymLinks)
            THEN <<>>
            ELSE LET utf8 == unicodeToUtf8Heap(entw.cFileName, utf8Ok[i]) IN
                 IF utf8.ptr # NULL
                 THEN << Ev("Malloc", "utf8", i, utf8.str, <<>>),
                         Ev("callback", "utf8", i, utf8.str, <<callbackdata, origdir>>),
                         Ev("Free", "utf8", i, utf8.str, <<>>) >>
                 ELSE << Ev("setError", "ERR_OUT_OF_MEMORY", i, <<>>, <<>>) >>
        next == <<Ev("FindNextFileW", "dir", i, <<>>, <<>>)>>
    IN  IF i < Len(entries)
        THEN body \o next \o EnumLoop(entries, i + 1, omitSymLinks, utf8Ok, callbackdata, origdir)
        ELSE body \o next

\* env: searchOk, wideOk (the two __PHYSFS_smallAlloc calls succeed), oob, find (the
\* entries FindFirstFileW and FindNextFileW deliver, none when the open fails),
\* utf8Ok (per entry, allocator.Malloc succeeds)
__PHYSFS_platformEnumerateFiles(dirname, omitSymLinks, origdir, callbackdata, env) ==
    IF ~env.searchOk
    THEN [events |-> <<>>, searchPath |-> <<>>, wSearchPath |-> <<>>, used |-> {},
          size |-> 0]
    ELSE LET sp == BuildSearchPath(dirname, env.oob)
             a1 == << Ev("smallAlloc", "searchPath", 0, <<>>, <<>>) >>
             out(ev, w) == [events |-> ev, searchPath |-> sp.path, wSearchPath |-> w,
                            used |-> sp.used, size |-> sp.size]
         IN  IF ~env.wideOk THEN out(a1, <<>>)
             ELSE LET w == PHYSFS_utf8ToUcs2(sp.path)
                      a2 == a1 \o << Ev("smallAlloc", "wSearchPath", 0, <<>>, <<>>),
                                     Ev("FindFirstFileW", "dir", 0, <<>>, <<>>),
                                     Ev("smallFree", "wSearchPath", 0, <<>>, <<>>),
                                     Ev("smallFree", "searchPath", 0, <<>>, <<>>) >>
                  IN  IF env.find = <<>> THEN out(a2, w)
                      ELSE out(a2 \o EnumLoop(env.find, 1, omitSymLinks, env.utf8Ok,
                                              callbackdata, origdir)
                                  \o << Ev("FindClose", "dir", 0, <<>>, <<>>) >>, w)

\* -------------------------------------------- enumerate subsystem: actions
MaxEntries == 2          \* entries a directory holds

WideNames == { <<DOT>>, <<DOT, DOT>>, <<DOT, 97>>, <<233>>, <<8364, 98>> }
EntryKinds == { [attr |-> {}, tag |-> "0"],
                [attr |-> {"FILE_ATTRIBUTE_REPARSE_POINT"}, tag |-> "IO_REPARSE_TAG_SYMLINK"],
                [attr |-> {"FILE_ATTRIBUTE_REPARSE_POINT"},
                 tag |-> "IO_REPARSE_TAG_MOUNT_POINT"] }
Entries == { [cFileName |-> n, dwFileAttributes |-> k.attr, dwReserved0 |-> k.tag] :
               n \in WideNames, k \in EntryKinds }
Listings == UNION { [1 .. n -> Entries] : n \in 0 .. MaxEntries }
Dirnames == { <<>>, <<100>>, <<100, BACKSLASH>>, <<195, 169, BACKSLASH, 100>> }

EnumEnvs ==
    { [searchOk |-> TRUE, wideOk |-> TRUE, oob |-> 0, find |-> l, utf8Ok |-> u] :
        l \in Listings, u \in [1 .. MaxEntries -> BOOLEAN] }
    \cup { [searchOk |-> a, wideOk |-> b, oob |-> c, find |-> <<>>,
            utf8Ok |-> [k \in 1 .. MaxEntries |-> TRUE]] :
             a \in BOOLEAN, b \in BOOLEAN, c \in {0, BACKSLASH} }

NoEnumOut == [events |-> <<>>, searchPath |-> <<>>, wSearchPath |-> <<>>, used |-> {},
              size |-> 0]

\* an enumerate call about to be made: its arguments and the native answers are drawn
EnumInit ==
    enumCall \in { [op |-> "pending", dirname |-> d, omitSymLinks |-> o, origdir |-> "o",
                    callbackdata |-> "d", env |-> e, out |-> NoEnumOut] :
                     d \in Dirnames, o \in BOOLEAN, e \in EnumEnvs }

EnumIdle ==
    enumCall = [op |-> "none", dirname |-> <<>>, omitSymLinks |-> FALSE, origdir |-> "o",
                callbackdata |-> "d",
                env |-> [searchOk |-> TRUE, wideOk |-> TRUE, oob |-> 0, find |-> <<>>,
                         utf8Ok |-> [k \in 1 .. MaxEntries |-> TRUE]],
                out |-> NoEnumOut]

Enumerate ==
    /\ enumCall.op = "pending"
    /\ enumCall' = [enumCall EXCEPT !.op = "enumerate",
                       !.out = __PHYSFS_platformEnumerateFiles(enumCall.dirname,
                                   enumCall.omitSymLinks, enumCall.origdir,
                                   enumCall.callbackdata, enumCall.env)]
    /\ UNCHANGED exceptEnum

\* ----------------------------------------------------- the code: mutex
NumThreads == 2          \* threads sharing the mutex
MaxGrabs == 2            \* grab calls each thread makes
MaxWaitFailures == 1     \* native wait failures per behaviour

Threads == 1 .. NumThreads
NoThread == 0

\* CreateMutex(NULL, FALSE, NULL): unowned
CreateMutex == [owner |-> NoThread, count |-> 0, abandoned |-> FALSE]

\* WaitForSingleObject(mutex, INFINITE) can return to thread t: the mutex is free or
\* already owned by t
WaitSatisfied(m, t) == m.owner \in {NoThread, t}

\* what WaitForSingleObject returns, and the mutex after it
WaitForSingleObject(m, t, fails) ==
    IF fails THEN [rc |-> "WAIT_FAILED", m |-> m]
    ELSE [rc |-> IF m.abandoned THEN "WAIT_ABANDONED" ELSE "WAIT_OBJECT_0",
          m |-> [owner |-> t, count |-> m.count + 1, abandoned |-> FALSE]]

\* ReleaseMutex: one level of ownership given up; refused for a thread that is not
\* the owner
ReleaseMutex(m, t) ==
    IF m.owner # t THEN m
    ELSE IF m.count = 1 THEN [m EXCEPT !.owner = NoThread, !.count = 0]
    ELSE [m EXCEPT !.count = m.count - 1]

platformGrabMutex_onlySignaled(rc) == IF rc = "WAIT_OBJECT_0" THEN 1 ELSE 0

__PHYSFS_platformGrabMutex(rc) == IF rc # "WAIT_FAILED" THEN 1 ELSE 0

\* ------------------------------------------------ mutex subsystem: actions
NoWait == [t |-> NoThread, rc |-> "none", ret |-> 1]

MutexInit ==
    /\ mutex = CreateMutex
    /\ thr = [t \in Threads |-> [pc |-> "idle", held |-> 0, grabsLeft |-> MaxGrabs]]
    /\ lastWait = NoWait
    /\ waitFailsLeft = MaxWaitFailures

\* thread t calls __PHYSFS_platformGrabMutex and enters the native wait
GrabCall(t) ==
    /\ thr[t].pc = "idle"
    /\ thr[t].grabsLeft > 0
    /\ thr' = [thr EXCEPT ![t].pc = "waiting", ![t].grabsLeft = @ - 1]
    /\ UNCHANGED <<mutex, lastWait, waitFailsLeft, exceptMutex>>

\* the wait of thread t is satisfied and __PHYSFS_platformGrabMutex returns
GrabReturn(t) ==
    /\ thr[t].pc = "waiting"
    /\ WaitSatisfied(mutex, t)
    /\ LET w == WaitForSingleObject(mutex, t, FALSE)
           ret == __PHYSFS_platformGrabMutex(w.rc)
       IN  /\ mutex' = w.m
           /\ thr' = [thr EXCEPT ![t].pc = "idle", ![t].held = @ + ret]
           /\ lastWait' = [t |-> t, rc |-> w.rc, ret |-> ret]
    /\ UNCHANGED <<waitFailsLeft, exceptMutex>>

\* the wait of thread t fails and __PHYSFS_platformGrabMutex returns
GrabFail(t) ==
    /\ thr[t].pc = "waiting"
    /\ waitFailsLeft > 0
    /\ LET w == WaitForSingleObject(mutex, t, TRUE)
           ret == __PHYSFS_platformGrabMutex(w.rc)
       IN  /\ mutex' = w.m
           /\ thr' = [thr EXCEPT ![t].pc = "idle", ![t].held = @ + ret]
           /\ lastWait' = [t |-> t, rc |-> w.rc, ret |-> ret]
    /\ waitFailsLeft' = waitFailsLeft - 1
    /\ UNCHANGED exceptMutex

\* thread t, holding a grab, calls __PHYSFS_platformReleaseMutex
Release(t) ==
    /\ thr[t].pc = "idle"
    /\ thr[t].held > 0
    /\ mutex' = ReleaseMutex(mutex, t)
    /\ thr' = [thr EXCEPT ![t].held = @ - 1]
    /\ UNCHANGED <<lastWait, waitFailsLeft, exceptMutex>>

\* thread t ends while holding the mutex: the system marks the mutex abandoned
ThreadExit(t) ==
    /\ thr[t].pc = "idle"
    /\ thr[t].held > 0
    /\ mutex.owner = t
    /\ mutex' = [owner |-> NoThread, count |-> 0, abandoned |-> TRUE]
    /\ thr' = [thr EXCEPT ![t].pc = "exited", ![t].held = 0]
    /\ UNCHANGED <<lastWait, waitFailsLeft, exceptMutex>>

MutexNext ==
    \E t \in Threads :
        GrabCall(t) \/ GrabReturn(t) \/ GrabFail(t) \/ Release(t) \/ ThreadExit(t)

\* ------------------------------------------- the code: init and deinit
MaxLifeCalls == 4        \* platformInit / determineUserDir / platformDeinit calls

USERENV == 1             \* the module handle LoadLibraryA("userenv.dll") returns

\* the state the three functions work on: the two statics and the process
Life == [userDir |-> userDir, libUserEnv |-> libUserEnv, proc |-> proc,
         ret |-> 1, err |-> "none"]

NativeCall(st) == [st EXCEPT !.proc.osCalls = @ + 1]

\* allocator.Free(ptr): nothing for NULL, a bad free for a string not live
HeapFree(st, ptr) ==
    IF ptr = NULL THEN st
    ELSE [st EXCEPT !.proc.frees = @ + 1,
                    !.proc.live = @ \ {ptr},
                    !.proc.badFree = @ \/ ptr \notin st.proc.live]

determineUserDir_recompute(st, failAt) ==
    IF st.libUserEnv = NULL \/ failAt = "GetProcAddress"
    THEN [NativeCall(st) EXCEPT !.ret = 0, !.err = "winApiStrError"]
    ELSE [NativeCall(st) EXCEPT !.ret = 1,
             !.userDir = st.proc.nextId,
             !.proc.live = @ \cup {st.proc.nextId},
             !.proc.nextId = @ + 1]

\* lines 147-192; failAt names the native call or allocation that fails, if any
determineUserDir(st, failAt) ==
    IF st.userDir # NULL THEN [st EXCEPT !.ret = 1]
    ELSE LET s1 == NativeCall(st) IN      \* GetProcAddress, refused for a NULL module
         IF st.libUserEnv = NULL \/ failAt = "GetProcAddress"
         THEN [s1 EXCEPT !.ret = 0, !.err = "winApiStrError"]
         ELSE LET s2 == NativeCall(s1) IN                     \* OpenProcessToken
              IF failAt = "OpenProcessToken"
              THEN [s2 EXCEPT !.ret = 0, !.err = "winApiStrError"]
              ELSE LET s3 == NativeCall(s2) IN                \* the size query
                   IF failAt = "smallAlloc" THEN [s3 EXCEPT !.ret = 1]
                   ELSE LET s4 == NativeCall(s3) IN           \* the directory query
                        IF failAt = "GetUserProfileDirectoryW" THEN [s4 EXCEPT !.ret = 1]
                        ELSE IF failAt = "Malloc"
                        THEN [s4 EXCEPT !.ret = 1, !.err = "ERR_OUT_OF_MEMORY"]
                        ELSE [s4 EXCEPT !.ret = 1,
                                 !.userDir = s4.proc.nextId,
                                 !.proc.live = @ \cup {s4.proc.nextId},
                                 !.proc.nextId = @ + 1]

\* lines 473-481
__PHYSFS_platformInit(st, failAt) ==
    LET s1 == NativeCall(st) IN                               \* LoadLibraryA
    IF failAt = "LoadLibraryA"
    THEN [s1 EXCEPT !.libUserEnv = NULL, !.ret = 0, !.err = "winApiStrError"]
    ELSE LET s2 == determineUserDir([s1 EXCEPT !.libUserEnv = USERENV,
                                               !.proc.libRefs = @ + 1], failAt)
         IN  IF s2.ret = 0 THEN s2 ELSE [s2 EXCEPT !.ret = 1]

\* lines 484-492
__PHYSFS_platformDeinit(st) ==
    LET s1 == IF st.libUserEnv # NULL                         \* FreeLibrary
              THEN [NativeCall(st) EXCEPT !.proc.libRefs = @ - 1, !.proc.unloads = @ + 1]
              ELSE st
        s2 == HeapFree([s1 EXCEPT !.libUserEnv = NULL], s1.userDir)
    IN  [s2 EXCEPT !.userDir = NULL, !.ret = 1]

\* -------------------------------------------- init and deinit: actions
UserDirFailures == {"none", "GetProcAddress", "OpenProcessToken", "smallAlloc",
                    "GetUserProfileDirectoryW", "Malloc"}

LifeInit ==
    /\ userDir = NULL
    /\ libUserEnv = NULL
    /\ proc = [libRefs |-> 0, unloads |-> 0, live |-> {}, nextId |-> 1, frees |-> 0,
               badFree |-> FALSE, osCalls |-> 0]
    /\ lifeCall = [op |-> "none", ret |-> 1, err |-> "none"]
    /\ lifeLeft = MaxLifeCalls
    /\ reinit = FALSE

LifeReturned(op, st) ==
    /\ userDir' = st.userDir
    /\ libUserEnv' = st.libUserEnv
    /\ proc' = st.proc
    /\ lifeCall' = [op |-> op, ret |-> st.ret, err |-> st.err]
    /\ lifeLeft' = lifeLeft - 1
    /\ reinit' = (reinit \/ (op = "platformInit" /\ libUserEnv # NULL))
    /\ UNCHANGED exceptLife

PlatformInit ==
    /\ lifeLeft > 0
    /\ \E failAt \in UserDirFailures \cup {"LoadLibraryA"} :
         LifeReturned("platformInit", __PHYSFS_platformInit(Life, failAt))

DetermineUserDir ==
    /\ lifeLeft > 0
    /\ \E failAt \in UserDirFailures :
         LifeReturned("determineUserDir", determineUserDir(Life, failAt))

PlatformDeinit ==
    /\ lifeLeft > 0
    /\ LifeReturned("platformDeinit", __PHYSFS_platformDeinit(Life))

LifeNext == PlatformInit \/ DetermineUserDir \/ PlatformDeinit

\* ---------------------------------------------- the code: calcBaseDir
InitialBufLen == 64      \* DWORD buflen = 64
MaxDoublings == 2        \* doublings the longest path drawn needs

\* GetModuleFileNameW(NULL, modpath, buflen): 0 on failure; the length of the path
\* when it fits with its terminator; else buflen, with the path cut to buflen - 1
GetModuleFileNameW(path, buflen, fails) ==
    IF fails THEN [rc |-> 0, text |-> <<>>]
    ELSE IF Len(path) < buflen THEN [rc |-> Len(path), text |-> path]
    ELSE [rc |-> buflen, text |-> SubSeq(path, 1, buflen - 1)]

\* allocator.Realloc(ptr, size) succeeding: the old block is gone, a new one is live
Realloc(h, ptr) ==
    [h EXCEPT !.live = (@ \ {ptr}) \cup {h.nextId}, !.nextId = @ + 1]

\* allocator.Free(ptr) on the wide buffer
FreeModpath(h, ptr) ==
    IF ptr = NULL THEN h
    ELSE [h EXCEPT !.live = @ \ {ptr}, !.frees = @ + 1,
                   !.badFree = @ \/ ptr \notin h.live]

\* lines 269-275: the backward scan from index ptr stops at the nearest separator
\* at or before it, or at index 0
ScanBack(text, ptr) ==
    LET seps == {i \in 1 .. ptr : At(text, i) = BACKSLASH} IN
    IF seps = {} THEN 0 ELSE CHOOSE i \in seps : \A j \in seps : j <= i

CalcLoop_noGrow(c) ==
    LET fails(fn) == c.failAt = <<fn, c.iter + 1>> IN
    IF fails("Realloc")
    THEN [c EXCEPT !.pc = "done", !.iter = @ + 1, !.heap = FreeModpath(@, c.modpath),
                   !.retval = NoStr, !.err = "ERR_OUT_OF_MEMORY"]
    ELSE LET h == Realloc(c.heap, c.modpath)
             m == c.heap.nextId
             q == GetModuleFileNameW(c.path, c.buflen, fails("GetModuleFileNameW"))
         IN  IF q.rc = 0
             THEN [c EXCEPT !.pc = "done", !.iter = @ + 1, !.heap = FreeModpath(h, m),
                            !.modpath = m, !.retval = NoStr, !.err = "winApiStrError"]
             ELSE [c EXCEPT !.pc = "tail", !.iter = @ + 1, !.heap = h, !.modpath = m,
                            !.text = q.text, !.buflen = q.rc]

\* lines 239-265: one pass of the retry loop
CalcLoop(c) ==
    LET fails(fn) == c.failAt = <<fn, c.iter + 1>> IN
    IF fails("Realloc")
    THEN [c EXCEPT !.pc = "done", !.iter = @ + 1, !.heap = FreeModpath(@, c.modpath),
                   !.retval = NoStr, !.err = "ERR_OUT_OF_MEMORY"]
    ELSE LET h == Realloc(c.heap, c.modpath)
             m == c.heap.nextId
             q == GetModuleFileNameW(c.path, c.buflen, fails("GetModuleFileNameW"))
         IN  IF q.rc = 0
             THEN [c EXCEPT !.pc = "done", !.iter = @ + 1, !.heap = FreeModpath(h, m),
                            !.modpath = m, !.retval = NoStr, !.err = "winApiStrError"]
             ELSE IF q.rc < c.buflen
             THEN [c EXCEPT !.pc = "tail", !.iter = @ + 1, !.heap = h, !.modpath = m,
                            !.text = q.text, !.buflen = q.rc]
             ELSE [c EXCEPT !.iter = @ + 1, !.heap = h, !.modpath = m,
                            !.text = q.text, !.buflen = c.buflen * 2]

\* lines 267-287: after the loop
CalcTail(c) ==
    LET done == [c EXCEPT !.pc = "done", !.heap = FreeModpath(@, c.modpath)] IN
    IF c.buflen > 0
    THEN LET ptr == ScanBack(c.text, c.buflen - 1) IN
         IF ptr = 0 /\ At(c.text, ptr) # BACKSLASH
         THEN [done EXCEPT !.retval = NoStr, !.err = "ERR_GETMODFN_NO_DIR"]
         ELSE LET utf8 == unicodeToUtf8Heap(SubSeq(c.text, 1, ptr + 1),
                                            c.failAt # <<"Malloc", 0>>)
              IN  IF utf8.ptr = NULL
                  THEN [done EXCEPT !.retval = utf8, !.err = "ERR_OUT_OF_MEMORY"]
                  ELSE [done EXCEPT !.retval = utf8]
    ELSE [done EXCEPT !.retval = NoStr]

\* ------------------------------------------------- calcBaseDir: actions
\* the lengths around each buffer size tried, and two short ones
PathLens ==
    {1, 2} \cup UNION { { b - 1, b, b + 1 } :
                          b \in { InitialBufLen * (2 ^ k) : k \in 0 .. MaxDoublings } }

\* a path of length n with separators at the positions in seps
PathOfLen(n, seps) ==
    [i \in 1 .. n |-> IF i \in seps THEN BACKSLASH ELSE IF i = 2 THEN 233 ELSE 97]

ModulePaths ==
    UNION { { PathOfLen(n, seps) : seps \in SUBSET ({1, 2, n - 1, n} \cap (1 .. n)) } :
              n \in PathLens }

CalcFailures ==
    { <<"none", 0>>, <<"Malloc", 0>> }
    \cup { <<fn, k>> : fn \in {"Realloc", "GetModuleFileNameW"}, k \in 1 .. MaxDoublings + 2 }

NoCalc == [pc |-> "done", path |-> <<>>, failAt |-> <<"none", 0>>,
           buflen |-> InitialBufLen, modpath |-> NULL, text |-> <<>>, iter |-> 0,
           heap |-> [live |-> {}, nextId |-> 1, frees |-> 0, badFree |-> FALSE],
           retval |-> NoStr, err |-> "none"]

\* a call about to be made: the path of the executable and the failure are drawn
CalcInit ==
    calc \in { [NoCalc EXCEPT !.pc = "loop", !.path = p, !.failAt = f] :
                 p \in ModulePaths, f \in CalcFailures }

CalcIdle == calc = NoCalc

CalcIterate ==
    /\ calc.pc = "loop"
    /\ calc' = CalcLoop(calc)
    /\ UNCHANGED exceptCalc

CalcFinish ==
    /\ calc.pc = "tail"
    /\ calc' = CalcTail(calc)
    /\ UNCHANGED exceptCalc

CalcNext == CalcIterate \/ CalcFinish

\* ------------------------------------------------------- specifications
vars == <<fileVars, statVars, enumVars, mutexVars, lifeVars, calcVars>>

\* SpecOpen: handles opened and closed in any order
InitOpen == FileInit /\ StatIdle /\ EnumIdle /\ MutexInit /\ LifeInit /\ CalcIdle
SpecOpen == InitOpen /\ [][OpenNext]_vars

\* SpecStat: stat calls on paths of every kind
InitStat == FileIdle /\ StatInit /\ EnumIdle /\ MutexInit /\ LifeInit /\ CalcIdle
SpecStat == InitStat /\ [][Stat]_vars

\* SpecEnum: enumerate calls on directories of every kind
InitEnum == FileIdle /\ StatIdle /\ EnumInit /\ MutexInit /\ LifeInit /\ CalcIdle
SpecEnum == InitEnum /\ [][Enumerate]_vars

\* SpecMutex: threads grabbing and releasing one mutex; the system wakes a waiter
\* whose wait can be satisfied, and a thread holding the mutex goes on to release it
InitMutex == FileIdle /\ StatIdle /\ EnumIdle /\ MutexInit /\ LifeInit /\ CalcIdle
SpecMutex ==
    /\ InitMutex /\ [][MutexNext]_vars
    /\ \A t \in Threads : SF_vars(GrabReturn(t)) /\ WF_vars(Release(t))

\* SpecLife: platformInit, determineUserDir and platformDeinit called in any order
InitLife == FileIdle /\ StatIdle /\ EnumIdle /\ MutexInit /\ LifeInit /\ CalcIdle
SpecLife == InitLife /\ [][LifeNext]_vars

\* SpecCalc: calcBaseDir on executables of every path length; the call keeps running
InitCalc == FileIdle /\ StatIdle /\ EnumIdle /\ MutexInit /\ LifeInit /\ CalcInit
SpecCalc == InitCalc /\ [][CalcNext]_vars /\ WF_vars(CalcNext)

\* Spec: one handle at a time, read, written, sought and queried
Init == FileInit /\ StatIdle /\ EnumIdle /\ MutexInit /\ LifeInit /\ CalcIdle
Spec == Init /\ [][FileNext]_vars

\* ------------------------------------------------------ claims C1 .. C4
OpenOps == {"openRead", "openWrite", "openAppend"}
OpenHandles == {h \in Ids : os.handles[h].state = "open"}
PosOf(r) == os.handles[heap[r].handle].pos

Succeeded == IF call.op = "seek" THEN call.ret = 1 ELSE call.ret >= 0

\* C1: a read or write whose length exceeds the native 32-bit maximum returns -1
\* with the invalid-argument error, issues no native transfer call and leaves the
\* operating system (file content, file position, last error) and the handle
\* records exactly as they were; the length is never truncated.
C1_OversizedTransferRejected ==
    [][(ioLeft' < ioLeft /\ call'.op \in {"read", "write"} /\ call'.arg > DWORD_MAX)
        => /\ call'.ret = -1
           /\ errMsg' = "ERR_INVALID_ARGUMENT"
           /\ call'.nat.fn = "none"
           /\ os' = os
           /\ heap' = heap]_vars

C1_Witness ==
    /\ call.op = "write"
    /\ call.arg = DWORD_MOD
    /\ call.ret = -1
    /\ errMsg = "ERR_INVALID_ARGUMENT"
    /\ heap[call.id].readonly = 0

\* C2: an open call that fails after the native file was created closes the native
\* handle exactly once and frees the record (if allocated) exactly once, and returns
\* null; every handle returned and not yet closed is a live record whose native
\* handle is open and whose read-only flag was assigned (1 for openRead, 0 for
\* openWrite and openAppend); the open native handles are as many as the handles
\* returned and not yet closed.
C2_OpenReleasesOnFailure ==
    /\ \A i \in Ids : os.handles[i].closes <= 1 /\ heap[i].frees <= 1
    /\ (call.op \in OpenOps /\ call.ret = NULL) =>
          /\ os.handles[call.id].state # "open"
          /\ os.handles[call.id].state = "closed" => os.handles[call.id].closes = 1
          /\ heap[call.id].state # "live"
          /\ heap[call.id].state = "freed" => heap[call.id].frees = 1
    /\ (call.op \in OpenOps /\ call.ret # NULL) => call.ret \in owned
    /\ \A r \in owned :
          /\ heap[r].state = "live"
          /\ heap[r].handle \in Ids
          /\ os.handles[heap[r].handle].state = "open"
          /\ heap[r].readonly = (IF track[r].mode = "openRead" THEN 1 ELSE 0)
    /\ Cardinality(OpenHandles) = Cardinality(owned)

C2_Witness ==
    /\ call.op = "openAppend"
    /\ call.ret = NULL
    /\ os.handles[call.id].closes = 1
    /\ heap[call.id].frees = 1
    /\ Cardinality(owned) = 1

\* C3: openAppend on an existing file of length L, whatever L is, succeeds when
\* the environment refuses nothing, and leaves the position at L; a tell on a handle
\* opened for append and not sought since returns L plus the bytes written since.
C3_AppendStartsAtEnd ==
    /\ (call.op = "openAppend" /\ call.envok /\ call.pre # NoFile) =>
          /\ call.ret # NULL
          /\ PosOf(call.ret) = call.pre
    /\ (call.op = "tell" /\ call.envok /\ track[call.id].mode = "openAppend"
            /\ track[call.id].base # NoFile /\ ~track[call.id].moved) =>
          call.ret = track[call.id].base + track[call.id].delta

\* C4: seek(p), 0 <= p < 2^63, asks the native call to move to p (the halves it
\* passes denote p) and a successful seek(p) leaves the position at p; tell and
\* length return (high << 32) | low of the native result, non-negative, the position
\* and the file length; and whenever the native low half is the invalid marker the
\* call succeeds iff the native last error is NO_ERROR, failing with 0 (seek) or -1
\* (tell, length) otherwise.
C4_SeekTellLengthAgree ==
    /\ (call.op = "seek" /\ call.arg <= SINT64_MAX) =>
          /\ call.nat.low = call.arg % DWORD_MOD
          /\ NativeDistance(call.nat.low, call.nat.high) = call.arg
          /\ call.ret = 1 => PosOf(call.id) = call.arg
    /\ (call.op \in {"tell", "length"} /\ call.ret # -1) =>
          /\ call.ret = (call.nat.high * DWORD_MOD) + call.nat.low
          /\ call.ret >= 0
          /\ call.ret = IF call.op = "tell" THEN PosOf(call.id) ELSE os.disk[call.path]
    /\ (call.op \in {"seek", "tell", "length"}
            /\ call.nat.rc = PHYSFS_INVALID_SET_FILE_POINTER) =>
          /\ (os.lastErr = "NO_ERROR") <=> Succeeded
          /\ ~Succeeded => (call.ret = IF call.op = "seek" THEN 0 ELSE -1)

\* ------------------------------------------------------ claims C5 .. C6
NotFound == {"ERROR_FILE_NOT_FOUND", "ERROR_PATH_NOT_FOUND"}

\* C5: once the attribute query is made, stat's outcome is a function of it: a
\* query failing with file-not-found or path-not-found gives failure and exists = 0;
\* a query failing otherwise gives failure and exists = 1; a query that succeeds gives
\* success, exists = 1 and the type by precedence directory (size 0), then offline or
\* device (other, size 0), else regular with size (nFileSizeHigh << 32) | nFileSizeLow;
\* readonly is set iff the read-only attribute is.
C5_StatFollowsAttributeQuery ==
    (statCall.op = "stat" /\ statCall.wstrOk) =>
        LET q == statCall.query
            o == statCall.out
            A == q.winstat.dwFileAttributes
        IN  /\ (q.rc = 0 /\ q.err \in NotFound) => (o.ret = 0 /\ o.exists = 0)
            /\ (q.rc = 0 /\ q.err \notin NotFound) => (o.ret = 0 /\ o.exists = 1)
            /\ q.rc # 0 =>
                 /\ o.ret = 1
                 /\ o.exists = 1
                 /\ "FILE_ATTRIBUTE_DIRECTORY" \in A =>
                        (o.stat.filetype = "PHYSFS_FILETYPE_DIRECTORY" /\ o.stat.filesize = 0)
                 /\ ("FILE_ATTRIBUTE_DIRECTORY" \notin A
                        /\ ("FILE_ATTRIBUTE_OFFLINE" \in A \/ "FILE_ATTRIBUTE_DEVICE" \in A)) =>
                        (o.stat.filetype = "PHYSFS_FILETYPE_OTHER" /\ o.stat.filesize = 0)
                 /\ (A \subseteq {"FILE_ATTRIBUTE_READONLY"}) =>
                        /\ o.stat.filetype = "PHYSFS_FILETYPE_REGULAR"
                        /\ o.stat.filesize = q.winstat.nFileSizeHigh * DWORD_MOD
                                             + q.winstat.nFileSizeLow
                 /\ (o.stat.readonly = 1) <=> ("FILE_ATTRIBUTE_READONLY" \in A)
                 /\ o.stat.readonly \in {0, 1}

C5_Witness ==
    /\ statCall.op = "stat"
    /\ statCall.out.ret = 1
    /\ statCall.query.winstat.dwFileAttributes =
          {"FILE_ATTRIBUTE_DIRECTORY", "FILE_ATTRIBUTE_OFFLINE", "FILE_ATTRIBUTE_READONLY"}
    /\ statCall.out.stat.filetype = "PHYSFS_FILETYPE_DIRECTORY"

\* the conversion of timestamp t fails at one of its four stages
ConversionFails(t) ==
    \/ t.ft < 0
    \/ t.tzi.id = "TIME_ZONE_ID_INVALID"
    \/ ~t.localOk
    \/ t.ft < EPOCH_1970

\* C6: when the conversion of any of the three timestamps of an existing path fails
\* at any stage, stat returns failure (0); a successful stat carries no timestamp
\* with the failure value -1.
C6_TimeFailureFailsStat ==
    (statCall.op = "stat" /\ statCall.wstrOk /\ statCall.query.rc # 0) =>
        LET w == statCall.query.winstat
            o == statCall.out
        IN  /\ (ConversionFails(w.ftLastWriteTime) \/ ConversionFails(w.ftLastAccessTime)
                    \/ ConversionFails(w.ftCreationTime)) => o.ret = 0
            /\ o.ret = 1 => (o.stat.modtime # -1 /\ o.stat.accesstime # -1
                                /\ o.stat.createtime # -1)

\* ------------------------------------------------------------ claim C7
EventsOf(kind) == SelectSeq(enumCall.out.events, LAMBDA ev : ev.e = kind)
EnumErr == IF EventsOf("setError") = <<>> THEN "none" ELSE EventsOf("setError")[1].what
EnumDone == enumCall.op = "enumerate"
EnumOpened == enumCall.env.searchOk /\ enumCall.env.wideOk /\ enumCall.env.find # <<>>

\* the narrow encoding of a wide name, however large the buffer
NarrowOf(w) == Utf8Range(w, 1, Len(w))

Reportable(entw) ==
    /\ entw.cFileName \notin {<<DOT>>, <<DOT, DOT>>}
    /\ ~(/\ enumCall.omitSymLinks
         /\ "FILE_ATTRIBUTE_REPARSE_POINT" \in entw.dwFileAttributes
         /\ entw.dwReserved0 = "IO_REPARSE_TAG_SYMLINK")

\* the (entry, name) pairs a listing owes a callback, in native order, keeping the
\* entries at the positions in keep
RECURSIVE Owed(_, _, _)
Owed(entries, i, keep) ==
    IF i > Len(entries) THEN <<>>
    ELSE (IF Reportable(entries[i]) /\ i \in keep
          THEN << <<i, NarrowOf(entries[i].cFileName)>> >> ELSE <<>>)
         \o Owed(entries, i + 1, keep)

Reported ==
    [k \in 1 .. Len(EventsOf("callback")) |->
        <<EventsOf("callback")[k].i, EventsOf("callback")[k].name>>]

CallbackArgsRight ==
    \A k \in 1 .. Len(EventsOf("callback")) :
        EventsOf("callback")[k].args = <<enumCall.callbackdata, enumCall.origdir>>

\* C7 as stated: once the find-iteration is open, every entry that is not ".", ".."
\* or an omitted symlink gets exactly one callback, in native order, with
\* (userData, origdir, narrow name); a failed open or a listing of only "." and ".."
\* gives no callback and no error.
C7_CallbackForEveryEntry ==
    EnumDone =>
        /\ CallbackArgsRight
        /\ EnumOpened =>
             Reported = Owed(enumCall.env.find, 1, 1 .. Len(enumCall.env.find))
        /\ (\/ ~EnumOpened
            \/ \A i \in 1 .. Len(enumCall.env.find) :
                 enumCall.env.find[i].cFileName \in {<<DOT>>, <<DOT, DOT>>})
           => EventsOf("callback") = <<>> /\ EnumErr = "none"

\* C7 amended: the entries that get their callback are those that are not ".", ".."
\* or an omitted symlink AND whose narrow name could be allocated; each gets exactly
\* one, in native order, with (userData, origdir, narrow name); an entry whose
\* narrow name cannot be allocated gets none and out-of-memory is recorded; a failed
\* allocation of a pattern buffer, a failed open or a listing of only "." and ".."
\* gives no callback and no error.
C7_CallbackForEveryConvertedEntry ==
    EnumDone =>
        /\ CallbackArgsRight
        /\ EnumOpened =>
             /\ Reported = Owed(enumCall.env.find, 1,
                                {i \in 1 .. Len(enumCall.env.find) : enumCall.env.utf8Ok[i]})
             /\ EnumErr = (IF \E i \in 1 .. Len(enumCall.env.find) :
                                 Reportable(enumCall.env.find[i]) /\ ~enumCall.env.utf8Ok[i]
                           THEN "ERR_OUT_OF_MEMORY" ELSE "none")
        /\ (\/ ~EnumOpened
            \/ \A i \in 1 .. Len(enumCall.env.find) :
                 enumCall.env.find[i].cFileName \in {<<DOT>>, <<DOT, DOT>>})
           => EventsOf("callback") = <<>> /\ EnumErr = "none"

\* a listing with "..", an omitted symlink, an entry whose name cannot be allocated
\* and one reported with a multi-byte name
C7_Witness ==
    /\ EnumDone /\ EnumOpened /\ enumCall.omitSymLinks
    /\ Len(enumCall.env.find) = MaxEntries
    /\ enumCall.env.find[1].cFileName = <<DOT, DOT>>
    /\ Len(EventsOf("callback")) = 1
    /\ EventsOf("callback")[1].name = <<226, 130, 172, 98>>
    /\ EventsOf("callback")[1].i = MaxEntries

\* ------------------------------------------------------------ claim C8
\* the threads that hold at least one grab that returned true
Holders == {t \in Threads : thr[t].held > 0}

\* C8: at most one thread holds the mutex at any time; a grab returns true to a
\* thread only when no other thread holds the mutex; a grab by the thread that
\* already holds it can return at once; every grab eventually returns, and returns
\* true unless the native wait itself failed; only a failed wait makes it return
\* false.
C8_MutexExclusionAndProgress ==
    /\ [](Cardinality(Holders) <= 1)
    /\ [][\A t \in Threads :
            (thr[t].pc = "waiting" /\ thr'[t].pc = "idle" /\ lastWait'.ret = 1)
               => Holders \subseteq {t} /\ thr'[t].held = thr[t].held + 1]_vars
    /\ [](\A t \in Threads :
            thr[t].pc = "waiting" /\ thr[t].held > 0 => WaitSatisfied(mutex, t))
    /\ \A t \in Threads : (thr[t].pc = "waiting") ~> (thr[t].pc = "idle")
    /\ [](lastWait.ret = 0 <=> lastWait.rc = "WAIT_FAILED")

\* thread 2 was granted the mutex while thread 1, which held it twice over, had
\* released it, and thread 2 holds it twice over itself
C8_Witness ==
    /\ thr[2].held = 2 /\ mutex.owner = 2 /\ mutex.count = 2
    /\ thr[1].pc = "idle" /\ thr[1].held = 0 /\ thr[1].grabsLeft = 0
    /\ lastWait = [t |-> 2, rc |-> "WAIT_OBJECT_0", ret |-> 1]

\* ------------------------------------------------------------ claim C9
LifeStep(op) == lifeLeft' < lifeLeft /\ lifeCall'.op = op

\* a cached user directory is returned as it is, without a native call
CachedDirKept ==
    [][(LifeStep("determineUserDir") /\ userDir # NULL) =>
          /\ lifeCall'.ret = 1
          /\ userDir' = userDir
          /\ proc' = proc]_vars

\* deinit frees the string once, unloads the library once, leaves both null; with
\* both null already it frees and unloads nothing
DeinitReleasesOnce ==
    [][LifeStep("platformDeinit") =>
          /\ userDir' = NULL /\ libUserEnv' = NULL
          /\ proc'.frees = proc.frees + (IF userDir # NULL THEN 1 ELSE 0)
          /\ proc'.live = proc.live \ {userDir}
          /\ proc'.unloads = proc.unloads + (IF libUserEnv # NULL THEN 1 ELSE 0)
          /\ (userDir = NULL /\ libUserEnv = NULL => proc' = proc)]_vars

\* an init after a deinit asks the system again and caches a fresh string
InitRecomputes ==
    [][(LifeStep("platformInit") /\ userDir = NULL /\ libUserEnv = NULL) =>
          /\ proc'.osCalls > proc.osCalls
          /\ (userDir' # NULL =>
                userDir' \notin proc.live /\ userDir' = proc.nextId
                /\ proc'.live = {userDir'} /\ libUserEnv' # NULL)]_vars

NoStringLeak == proc.live = (IF userDir = NULL THEN {} ELSE {userDir})
NoLibraryLeak == proc.libRefs = (IF libUserEnv = NULL THEN 0 ELSE 1)

\* C9 as stated: over any sequence of the three calls, a cached user directory is
\* never recomputed, deinit frees the string and unloads the library exactly once
\* and leaves both null, a second deinit frees nothing, a later init recomputes,
\* and no string or library reference is leaked or freed twice.
C9_SingletonLifecycle ==
    /\ CachedDirKept /\ DeinitReleasesOnce /\ InitRecomputes
    /\ [](~proc.badFree /\ NoStringLeak /\ NoLibraryLeak)

\* C9 amended: the same, with the library reference accounted for only as long as
\* platformInit has not been called while the library handle was still non-null.
C9_SingletonLifecycleAlternating ==
    /\ CachedDirKept /\ DeinitReleasesOnce /\ InitRecomputes
    /\ [](~proc.badFree /\ NoStringLeak)
    /\ [](~reinit => NoLibraryLeak)

\* init, deinit, init again, then determineUserDir finding the second string cached
C9_Witness ==
    /\ ~reinit /\ lifeCall.op = "determineUserDir" /\ lifeCall.ret = 1
    /\ proc.frees = 1 /\ proc.unloads = 1 /\ userDir = 2 /\ proc.live = {2}
    /\ libUserEnv # NULL /\ lifeLeft = MaxLifeCalls - 4

\* ----------------------------------------------------------- claim C10
\* the passes of the loop a path of length n needs: the first buffer size, doubling
\* from InitialBufLen, that is strictly larger than n
RECURSIVE PassesFor(_, _)
PassesFor(n, size) == IF n < size THEN 1 ELSE 1 + PassesFor(n, size * 2)

SepsOf(path) == {i \in 1 .. Len(path) : path[i] = BACKSLASH}
LastSep(path) == CHOOSE i \in SepsOf(path) : \A j \in SepsOf(path) : j <= i

\* what the call owes for its path and the failure drawn
CalcOwed ==
    LET need == PassesFor(Len(calc.path), InitialBufLen)
        f == calc.failAt
    IN  IF f[1] = "Realloc" /\ f[2] <= need
        THEN [str |-> <<>>, err |-> "ERR_OUT_OF_MEMORY", iter |-> f[2]]
        ELSE IF f[1] = "GetModuleFileNameW" /\ f[2] <= need
        THEN [str |-> <<>>, err |-> "winApiStrError", iter |-> f[2]]
        ELSE IF SepsOf(calc.path) = {}
        THEN [str |-> <<>>, err |-> "ERR_GETMODFN_NO_DIR", iter |-> need]
        ELSE IF f[1] = "Malloc"
        THEN [str |-> <<>>, err |-> "ERR_OUT_OF_MEMORY", iter |-> need]
        ELSE [str |-> NarrowOf(SubSeq(calc.path, 1, LastSep(calc.path))),
              err |-> "none", iter |-> need]

CalcRan == calc.pc = "done" /\ calc.iter > 0

\* C10: the loop starts at 64 units and doubles until the path is strictly shorter
\* than the buffer, so every call ends; the result is the narrow form of the path up
\* to and including its last separator, or null with the directory-layout error when
\* there is no separator, null with the native error when the query returns 0, null
\* with out-of-memory when an allocation fails; the wide buffer is freed exactly once.
C10_CalcBaseDirTerminatesCorrect ==
    /\ <>(calc.pc = "done")
    /\ [][calc.pc = "loop" /\ calc'.pc = "loop" => calc'.buflen = 2 * calc.buflen]_vars
    /\ [](calc.pc = "loop" =>
             /\ calc.buflen = InitialBufLen * (2 ^ calc.iter)
             /\ (calc.iter > 0 => calc.buflen \div 2 <= Len(calc.path)))
    /\ [](CalcRan =>
             /\ calc.retval.str = CalcOwed.str
             /\ (calc.retval.ptr = NULL <=> CalcOwed.err # "none")
             /\ calc.err = CalcOwed.err
             /\ calc.iter = CalcOwed.iter
             /\ (calc.retval.ptr # NULL =>
                   calc.retval.str[Len(calc.retval.str)] = BACKSLASH)
             /\ calc.heap.live = {} /\ ~calc.heap.badFree
             /\ calc.heap.frees = (IF calc.heap.nextId > 1 THEN 1 ELSE 0))

\* a path one unit longer than the buffer doubled twice, its last separator just
\* before the file name, returned after three passes
C10_Witness ==
    /\ CalcRan /\ calc.iter = 3 /\ calc.err = "none"
    /\ Len(calc.path) = (InitialBufLen * 2) + 1
    /\ calc.path[Len(calc.path)] # BACKSLASH
    /\ Len(calc.retval.str) = (InitialBufLen * 2) + 1
    /\ calc.heap.frees = 1

\* ----------------------------------------------------------- claim C11
\* C11: determineUserDir returns non-zero exactly when userDir is non-null as it
\* returns (zero, with userDir null, whenever the profile directory cannot be
\* determined), so that userDir is non-null after a platformInit that returned
\* success.
C11_ReturnReflectsCache ==
    /\ lifeCall.op = "determineUserDir" => (lifeCall.ret # 0 <=> userDir # NULL)
    /\ lifeCall.op = "platformInit" /\ lifeCall.ret # 0 => userDir # NULL

\* ----------------------------------------------------------- claim C12
Evs == enumCall.out.events
CountOf(kind, what) ==
    Cardinality({k \in 1 .. Len(Evs) : Evs[k].e = kind /\ Evs[k].what = what})

\* the find-iteration handle is closed once, after everything else, when it was opened
FindClosedOnce ==
    /\ CountOf("FindClose", "dir") = (IF EnumOpened THEN 1 ELSE 0)
    /\ EnumOpened => Evs[Len(Evs)].e = "FindClose"

\* every narrow name allocated is handed to the callback, freed right after it and
\* before the next entry is fetched, and freed only then
NamesFreedAfterCallback ==
    /\ \A k \in 1 .. Len(Evs) :
         Evs[k].e = "callback" =>
            /\ k + 2 <= Len(Evs)
            /\ Evs[k - 1].e = "Malloc" /\ Evs[k - 1].i = Evs[k].i
            /\ Evs[k + 1].e = "Free" /\ Evs[k + 1].i = Evs[k].i
            /\ Evs[k + 2].e = "FindNextFileW" /\ Evs[k + 2].i = Evs[k].i
    /\ CountOf("Free", "utf8") = CountOf("callback", "utf8")
    /\ CountOf("Malloc", "utf8") = CountOf("callback", "utf8")

\* C12: on every path of enumerate the narrow and the wide search-pattern buffer,
\* once allocated, are each released exactly once before it returns; the
\* find-iteration handle, once opened, is closed exactly once after the last entry;
\* each converted entry name is freed exactly once, right after its callback and
\* before the next entry is fetched.
C12_EnumerateReleasesEverything ==
    EnumDone =>
        /\ \A what \in {"searchPath", "wSearchPath"} :
             CountOf("smallFree", what) = CountOf("smallAlloc", what)
        /\ FindClosedOnce
        /\ NamesFreedAfterCallback

\* ----------------------------------------------------------- claim C13
EndsWithSeparator(d) == Len(d) > 0 /\ d[Len(d)] = BACKSLASH

\* C13: for every dirname, the empty one and those ending with a separator
\* included, the search pattern is dirname, one separator (appended exactly when
\* dirname does not end with one) and '*'; with its terminator it fits the
\* len + 3 bytes allocated, and every index read or written is in 0 .. len + 2.
C13_SearchPatternWellFormed ==
    (EnumDone /\ enumCall.env.searchOk) =>
        LET d == enumCall.dirname
            len == Len(d)
        IN  /\ enumCall.out.searchPath =
                  (IF EndsWithSeparator(d) THEN d ELSE Append(d, BACKSLASH)) \o <<STAR>>
            /\ enumCall.out.size = len + 3
            /\ Len(enumCall.out.searchPath) + 1 <= enumCall.out.size
            /\ enumCall.out.used \subseteq 0 .. len + 2

====
